---- MODULE Spec2Model ----
(***************************************************************************)
(* The trading growth calculator of src/src/app/page.tsx: the component    *)
(* state of TradingCalculator, its event handlers, the recalculation       *)
(* effect and the ledger arithmetic (calculateTradeRow, calculateNextRisk, *)
(* recalculateTrades).                                                     *)
(*                                                                         *)
(* Numbers.  A JavaScript number is modelled as a pair <<n, d>>: the exact *)
(* rational n/d in lowest terms with d > 0, or one of the three non-finite *)
(* values NaN = <<0,0>>, +Infinity = <<1,0>>, -Infinity = <<-1,0>>.  The   *)
(* value `undefined` is <<0,-1>>.  Arithmetic on these finite values is    *)
(* exact.  The rounding of IEEE doubles is modelled apart, in SpecDouble,  *)
(* where the same program computes on 53-bit binary floating point.        *)
(*                                                                         *)
(* Strings that the code parses are sequences of one-character strings.    *)
(***************************************************************************)
EXTENDS Integers, Sequences, FiniteSets, TLC

VARIABLES
    hasMounted,                 \* useState(false), line 85
    initialBalanceStr,          \* line 86
    profitTargetStr,            \* line 87
    defaultRiskPercentageStr,   \* line 88
    defaultWinMultiplierStr,    \* line 89
    trades,                     \* line 90: the trade list held in state
    toast,                      \* the last notice raised through sonner's toast
    effectPending,              \* the recalculation effect (168-174) is scheduled
    nextId,                     \* the next fresh identifier uuidv4() hands out
    events                      \* how many user events the handlers have been given

vars == <<hasMounted, initialBalanceStr, profitTargetStr, defaultRiskPercentageStr,
          defaultWinMultiplierStr, trades, toast, effectPending, nextId, events>>

configVars == <<initialBalanceStr, profitTargetStr, defaultRiskPercentageStr,
                defaultWinMultiplierStr>>

(***************************************************************************)
(* Bounds of the model.                                                    *)
(***************************************************************************)
MaxTrades == 2      \* longest trade list explored
MaxEvents == 4      \* user events (handler calls) in one run

(***************************************************************************)
(* Numbers.                                                                *)
(***************************************************************************)
NaN == <<0, 0>>
PosInf == <<1, 0>>
NegInf == <<0 - 1, 0>>
Undefined == <<0, 0 - 1>>
Null == <<0, 0 - 2>>

Abs(i) == IF i < 0 THEN 0 - i ELSE i
Sign(i) == IF i < 0 THEN 0 - 1 ELSE IF i > 0 THEN 1 ELSE 0

RECURSIVE GCD(_, _)
GCD(a, b) == IF b = 0 THEN a ELSE GCD(b, a % b)

\* n/d in lowest terms; a zero denominator gives NaN or an infinity.
Norm(n, d) ==
    IF d = 0 THEN <<Sign(n), 0>>
    ELSE LET g == GCD(Abs(n), Abs(d))
         IN  <<(Sign(d) * n) \div g, Abs(d) \div g>>

Whole(i) == <<i, 1>>
Zero == Whole(0)

IsNaN(x) == x = NaN
IsFinite(x) == x[2] > 0

Number == Int \X Int

Negation == [x \in Number |-> <<0 - x[1], x[2]>>]
Neg(x) == Negation[x]

\* The arithmetic is defined on pairs of integers as functions, so that an
\* operand is evaluated once however often the definition reads it.

Product ==
    [a \in Number, b \in Number |->
        LET p == Norm(a[1], b[2])
            q == Norm(b[1], a[2])
        IN  IF IsNaN(a) \/ IsNaN(b) THEN NaN ELSE Norm(p[1] * q[1], p[2] * q[2])]

Mul(a, b) == Product[a, b]

Reciprocal == [x \in Number |-> Norm(x[2], x[1])]
Inv(x) == Reciprocal[x]

Div(a, b) == Mul(a, Inv(b))

Sum ==
    [a \in Number, b \in Number |->
        IF IsNaN(a) \/ IsNaN(b) THEN NaN
        ELSE IF ~IsFinite(a) /\ ~IsFinite(b) THEN (IF a = b THEN a ELSE NaN)
        ELSE IF ~IsFinite(a) THEN a
        ELSE IF ~IsFinite(b) THEN b
        ELSE LET g == GCD(a[2], b[2])
             IN  Norm(a[1] * (b[2] \div g) + b[1] * (a[2] \div g), a[2] * (b[2] \div g))]

Add(a, b) == Sum[a, b]

Sub(a, b) == Add(a, Neg(b))

\* JavaScript's <, <=, >: every comparison with NaN is false.
LessThan == [a \in Number, b \in Number |-> Sub(b, a)[1] > 0]
Lt(a, b) == LessThan[a, b]
Gt(a, b) == LessThan[b, a]
LessOrEqual ==
    [a \in Number, b \in Number |-> ~IsNaN(a) /\ ~IsNaN(b) /\ (a = b \/ Lt(a, b))]
Le(a, b) == LessOrEqual[a, b]

(***************************************************************************)
(* parseFloat and the input pattern of the configuration fields.           *)
(***************************************************************************)
Digits == {"0", "1", "2", "3", "4", "5", "6", "7", "8", "9"}

DigitVal(c) ==
    CASE c = "0" -> 0 [] c = "1" -> 1 [] c = "2" -> 2 [] c = "3" -> 3 [] c = "4" -> 4
      [] c = "5" -> 5 [] c = "6" -> 6 [] c = "7" -> 7 [] c = "8" -> 8 [] c = "9" -> 9

\* The length of the run of digits of s that starts at position i.
RECURSIVE DigitRun(_, _)
DigitRun(s, i) ==
    IF i <= Len(s) /\ s[i] \in Digits THEN 1 + DigitRun(s, i + 1) ELSE 0

\* The decimal value of the k digits of s that start at position i.
RECURSIVE DigitsValue(_, _, _)
DigitsValue(s, i, k) ==
    IF k = 0 THEN 0 ELSE DigitsValue(s, i, k - 1) * 10 + DigitVal(s[i + k - 1])

RECURSIVE Pow10(_)
Pow10(k) == IF k = 0 THEN 1 ELSE 10 * Pow10(k - 1)

InfinityLiteral == <<"I", "n", "f", "i", "n", "i", "t", "y">>

\* parseFloat(s): the longest prefix [+-]digits[.digits] with at least one
\* digit, or [+-]Infinity; NaN when there is neither.  (Exponents and leading
\* white space are not in the alphabet of the strings explored.)
ParseFloat(s) ==
    LET signed == Len(s) > 0 /\ s[1] \in {"-", "+"}
        start == IF signed THEN 2 ELSE 1
        il == DigitRun(s, start)
        hasDot == start + il <= Len(s) /\ s[start + il] = "."
        fl == IF hasDot THEN DigitRun(s, start + il + 1) ELSE 0
        infinite == Len(s) >= start + 7 /\ SubSeq(s, start, start + 7) = InfinityLiteral
        mag == IF infinite THEN PosInf
               ELSE Norm(DigitsValue(s, start, il) * Pow10(fl)
                           + DigitsValue(s, start + il + 1, fl), Pow10(fl))
    IN  IF il + fl = 0 /\ ~infinite THEN NaN
        ELSE IF signed /\ s[1] = "-" THEN Neg(mag) ELSE mag

\* /^[0-9]*\.?[0-9]*$/.test(value), line 235
MatchesDecimalPattern(s) ==
    LET a == DigitRun(s, 1)
        dot == IF a < Len(s) /\ s[a + 1] = "." THEN 1 ELSE 0
        b == DigitRun(s, a + dot + 1)
    IN  a + dot + b = Len(s)

\* x || 0 : NaN and 0 are falsy
OrZero(x) == IF IsNaN(x) \/ x = Zero THEN Zero ELSE x

(***************************************************************************)
(* The derived configuration, lines 92-99.                                 *)
(***************************************************************************)
\* parseFloat(str) || 0, lines 92-94
ParsedOrZero(str) == OrZero(ParseFloat(str))

DefaultGrowth == Norm(108, 100)

\* The profit target with a user's value of 0 accepted as a target.
ProfitTargetOfZeroAccepted(targetStr, balance) ==
    LET userTarget == ParseFloat(targetStr)
    IN  IF ~IsNaN(userTarget) /\ Le(Zero, userTarget)
        THEN userTarget
        ELSE Mul(balance, DefaultGrowth)

\* lines 96-99, for a profit target string and an initial balance
ProfitTargetOf(targetStr, balance) ==
    LET userTarget == ParseFloat(targetStr)
    IN  IF ~IsNaN(userTarget) /\ Gt(userTarget, Zero)
        THEN userTarget
        ELSE Mul(balance, DefaultGrowth)

initialBalance == ParsedOrZero(initialBalanceStr)
defaultRiskPercentage == ParsedOrZero(defaultRiskPercentageStr)
defaultWinMultiplier == ParsedOrZero(defaultWinMultiplierStr)
profitTarget == ProfitTargetOf(profitTargetStr, initialBalance)

(***************************************************************************)
(* Trades.  A Trade (lines 58-70) is a record of its eleven fields; a      *)
(* field a handler has not set yet holds Undefined.                        *)
(***************************************************************************)
Outcomes == {"win", "partial win", "loss", "breakeven", "pending"}

\* calculateTradeRow with the loss branch adding the risk amount instead of
\* subtracting it.
calculateTradeRowLossAdds(trade, previousBalance, target) ==
    LET accountSize == previousBalance
        riskAmount == Mul(accountSize, Div(trade.riskPercentage, Whole(100)))
        floatingPL ==
            CASE trade.outcome = "win" -> Mul(riskAmount, trade.winMultiplier)
              [] trade.outcome = "loss" -> riskAmount
              [] trade.outcome = "partial win" ->
                    Div(Mul(riskAmount, trade.winMultiplier), Whole(2))
              [] OTHER -> Zero
        accountBalance == Add(accountSize, floatingPL)
    IN  [trade EXCEPT
            !.accountSize = accountSize,
            !.riskAmount = riskAmount,
            !.floatingPL = floatingPL,
            !.accountBalance = accountBalance,
            !.distanceToTarget = Sub(target, accountBalance)]

\* calculateTradeRow with the partial win paid in full.
calculateTradeRowPartialInFull(trade, previousBalance, target) ==
    LET accountSize == previousBalance
        riskAmount == Mul(accountSize, Div(trade.riskPercentage, Whole(100)))
        floatingPL ==
            CASE trade.outcome \in {"win", "partial win"} -> Mul(riskAmount, trade.winMultiplier)
              [] trade.outcome = "loss" -> Neg(riskAmount)
              [] OTHER -> Zero
        accountBalance == Add(accountSize, floatingPL)
    IN  [trade EXCEPT
            !.accountSize = accountSize,
            !.riskAmount = riskAmount,
            !.floatingPL = floatingPL,
            !.accountBalance = accountBalance,
            !.distanceToTarget = Sub(target, accountBalance)]

\* calculateTradeRow starting from the balance the trade itself ended with at
\* the previous recalculation, when it has one.
calculateTradeRowFromOwnBalance(trade, previousBalance, target) ==
    LET accountSize == IF trade.accountBalance /= Undefined
                       THEN trade.accountBalance ELSE previousBalance
        riskAmount == Mul(accountSize, Div(trade.riskPercentage, Whole(100)))
        floatingPL ==
            CASE trade.outcome = "win" -> Mul(riskAmount, trade.winMultiplier)
              [] trade.outcome = "loss" -> Neg(riskAmount)
              [] trade.outcome = "partial win" ->
                    Div(Mul(riskAmount, trade.winMultiplier), Whole(2))
              [] OTHER -> Zero
        accountBalance == Add(accountSize, floatingPL)
    IN  [trade EXCEPT
            !.accountSize = accountSize,
            !.riskAmount = riskAmount,
            !.floatingPL = floatingPL,
            !.accountBalance = accountBalance,
            !.distanceToTarget = Sub(target, accountBalance)]

\* lines 107-133
calculateTradeRow(trade, previousBalance, target) ==
    LET accountSize == previousBalance
        riskPercentage == trade.riskPercentage
        winMultiplier == trade.winMultiplier
        outcome == trade.outcome
        riskAmount == Mul(accountSize, Div(riskPercentage, Whole(100)))
        floatingPL ==
            CASE outcome = "win" -> Mul(riskAmount, winMultiplier)
              [] outcome = "loss" -> Neg(riskAmount)
              [] outcome = "partial win" -> Div(Mul(riskAmount, winMultiplier), Whole(2))
              [] OTHER -> Zero
        accountBalance == Add(accountSize, floatingPL)
        distanceToTarget == Sub(target, accountBalance)
    IN  [trade EXCEPT
            !.accountSize = accountSize,
            !.riskAmount = IF IsNaN(riskAmount) THEN Zero ELSE riskAmount,
            !.floatingPL = IF IsNaN(floatingPL) THEN Zero ELSE floatingPL,
            !.accountBalance = IF IsNaN(accountBalance) THEN accountSize ELSE accountBalance,
            !.distanceToTarget = IF IsNaN(distanceToTarget)
                                 THEN Sub(target, accountSize) ELSE distanceToTarget]

\* calculateNextRisk with the first test written < instead of <=.
calculateNextRiskStrictTest(currentBal, target, multiplier) ==
    LET remainingNeeded == Sub(target, currentBal)
        risk == Mul(Div(remainingNeeded, Mul(currentBal, multiplier)), Whole(100))
    IN  IF Lt(remainingNeeded, Zero) \/ Le(currentBal, Zero) \/ Le(multiplier, Zero)
        THEN Undefined
        ELSE IF IsNaN(risk) \/ ~IsFinite(risk) THEN Undefined ELSE risk

\* lines 135-142
calculateNextRisk(currentBal, target, multiplier) ==
    LET remainingNeeded == Sub(target, currentBal)
        risk == Mul(Div(remainingNeeded, Mul(currentBal, multiplier)), Whole(100))
    IN  IF Le(remainingNeeded, Zero) \/ Le(currentBal, Zero) \/ Le(multiplier, Zero)
        THEN Undefined
        ELSE IF IsNaN(risk) \/ ~IsFinite(risk) THEN Undefined ELSE risk

\* The map callback with the suggestion computed from the trade's own win
\* multiplier instead of the configured default.
RecalculatedRowOwnMultiplier(trade, index, cumulativeBalance) ==
    LET calculatedCoreTrade == calculateTradeRow(trade, cumulativeBalance, profitTarget)
        nextRisk == calculateNextRisk(calculatedCoreTrade.accountBalance, profitTarget,
                                      trade.winMultiplier)
    IN  [calculatedCoreTrade EXCEPT
            !.tradeNumber = Whole(index),
            !.nextSuggestedRisk = nextRisk]

\* The map callback keeping a trade number the trade already has.
RecalculatedRowKeepsNumber(trade, index, cumulativeBalance) ==
    LET calculatedCoreTrade == calculateTradeRow(trade, cumulativeBalance, profitTarget)
        nextRisk == calculateNextRisk(calculatedCoreTrade.accountBalance, profitTarget,
                                      defaultWinMultiplier)
    IN  [calculatedCoreTrade EXCEPT
            !.tradeNumber = IF trade.tradeNumber /= Undefined
                            THEN trade.tradeNumber ELSE Whole(index),
            !.nextSuggestedRisk = nextRisk]

\* The map callback computing the row with the configured default multiplier
\* and storing that multiplier in the trade.
RecalculatedRowDefaultMultiplier(trade, index, cumulativeBalance) ==
    LET calculatedCoreTrade ==
            calculateTradeRow([trade EXCEPT !.winMultiplier = defaultWinMultiplier],
                              cumulativeBalance, profitTarget)
        nextRisk == calculateNextRisk(calculatedCoreTrade.accountBalance, profitTarget,
                                      defaultWinMultiplier)
    IN  [calculatedCoreTrade EXCEPT
            !.tradeNumber = Whole(index),
            !.nextSuggestedRisk = nextRisk]

\* The body of the map callback of recalculateTrades, lines 146-155: the row
\* of the trade at position index, given the balance carried into it.
RecalculatedRow(trade, index, cumulativeBalance) ==
    LET calculatedCoreTrade == calculateTradeRow(trade, cumulativeBalance, profitTarget)
        nextRisk == calculateNextRisk(calculatedCoreTrade.accountBalance, profitTarget,
                                      defaultWinMultiplier)
    IN  [calculatedCoreTrade EXCEPT
            !.tradeNumber = Whole(index),
            !.nextSuggestedRisk = nextRisk]

\* The loop never carrying the ending balance over to the next trade.
RECURSIVE RecalculateFromNoCarry(_, _, _)
RecalculateFromNoCarry(currentTrades, index, cumulativeBalance) ==
    IF index > Len(currentTrades) THEN <<>>
    ELSE <<RecalculatedRow(currentTrades[index], index, cumulativeBalance)>>
            \o RecalculateFromNoCarry(currentTrades, index + 1, cumulativeBalance)

RECURSIVE RecalculateFrom(_, _, _)
RecalculateFrom(currentTrades, index, cumulativeBalance) ==
    IF index > Len(currentTrades) THEN <<>>
    ELSE LET row == RecalculatedRow(currentTrades[index], index, cumulativeBalance)
         IN  <<row>> \o RecalculateFrom(currentTrades, index + 1, row.accountBalance)

\* recalculateTrades starting from the current balance (the ending balance of
\* the last trade of the list, lines 158-160) instead of the initial balance.
recalculateTradesFromCurrentBalance(currentTrades) ==
    RecalculateFrom(currentTrades, 1,
                    IF Len(currentTrades) > 0
                          /\ currentTrades[Len(currentTrades)].accountBalance /= Undefined
                    THEN currentTrades[Len(currentTrades)].accountBalance
                    ELSE initialBalance)

\* lines 144-156
recalculateTrades(currentTrades) == RecalculateFrom(currentTrades, 1, initialBalance)

\* JSON.stringify of one number-valued field: NaN and the infinities are
\* written as null; an undefined field is left out.
JsonValue(x) == IF x \in {NaN, PosInf, NegInf} THEN Null ELSE x

JsonTrade(t) ==
    [id |-> t.id, outcome |-> t.outcome,
     tradeNumber |-> JsonValue(t.tradeNumber),
     accountSize |-> JsonValue(t.accountSize),
     riskPercentage |-> JsonValue(t.riskPercentage),
     riskAmount |-> JsonValue(t.riskAmount),
     winMultiplier |-> JsonValue(t.winMultiplier),
     floatingPL |-> JsonValue(t.floatingPL),
     accountBalance |-> JsonValue(t.accountBalance),
     distanceToTarget |-> JsonValue(t.distanceToTarget),
     nextSuggestedRisk |-> JsonValue(t.nextSuggestedRisk)]

\* JSON.stringify(list), line 171
JsonStringify(list) == [i \in 1..Len(list) |-> JsonTrade(list[i])]

(***************************************************************************)
(* Inputs.                                                                 *)
(***************************************************************************)
\* What the key-value store can hold for the four configuration strings when
\* the component is constructed: nothing (the defaults of lines 86-89) or
\* values written by somebody else.
DefaultConfig ==
    [initialBalance |-> <<"1", "0", "0", "0", "0">>,
     profitTarget |-> <<>>,
     defaultRiskPercentage |-> <<"1", ".", "2", "3">>,
     defaultWinMultiplier |-> <<"6", ".", "5">>]

StoredConfigs == { DefaultConfig }

\* Strings typed into the four configuration fields (type="text").
ConfigFields == {"initialBalance", "profitTarget", "defaultRiskPercentage",
                 "defaultWinMultiplier"}
ConfigInputs == { <<>>, <<"2">>, <<"-", "5">> }

\* Strings the two <input type="number"> cells of a row (lines 415-422 and
\* 454-461) hand to onChange: the empty string when the field does not hold
\* a number, else the number as typed.
TradeFields == {"riskPercentage", "winMultiplier"}
TradeInputs(field) ==
    IF field = "riskPercentage"
    THEN { <<>>, <<"-", "1">>, <<"1">>, <<"9", "9">>, <<"1", "5", "0">> }
    ELSE { <<>>, <<"-", "0", ".", "5">>, <<"2">> }

Ids == 1..MaxEvents

NoToast == [kind |-> "none", text |-> ""]

(***************************************************************************)
(* The state after construction, lines 85-101.                             *)
(***************************************************************************)
Init ==
    /\ hasMounted = FALSE
    /\ \E c \in StoredConfigs :
          /\ initialBalanceStr = c.initialBalance
          /\ profitTargetStr = c.profitTarget
          /\ defaultRiskPercentageStr = c.defaultRiskPercentage
          /\ defaultWinMultiplierStr = c.defaultWinMultiplier
    /\ trades = <<>>
    /\ toast = NoToast
    /\ effectPending = FALSE
    /\ nextId = 1
    /\ events = 0

\* The values the recalculation effect depends on (line 174), for given
\* configuration strings.
EffectDepsOf(balanceStr, targetStr, multiplierStr) ==
    <<ParsedOrZero(balanceStr), ProfitTargetOf(targetStr, ParsedOrZero(balanceStr)),
      ParsedOrZero(multiplierStr)>>

\* The handlers are reachable only from the rendered calculator (lines
\* 243-249 render a placeholder until hasMounted), and React runs a scheduled
\* effect before it dispatches the next event.
Idle == hasMounted /\ ~effectPending

\* One more user event is handled.
Event == events < MaxEvents /\ events' = events + 1

\* lines 103-105
Mount ==
    /\ ~hasMounted
    /\ hasMounted' = TRUE
    /\ effectPending' = TRUE
    /\ UNCHANGED <<configVars, trades, toast, nextId, events>>

\* The effect computing the list without storing it (the setTrades call
\* left out).
RecalculationEffectNoStore ==
    /\ hasMounted
    /\ effectPending
    /\ trades' = trades
    /\ effectPending' = FALSE
    /\ UNCHANGED <<hasMounted, configVars, toast, nextId, events>>

\* lines 168-174
RecalculationEffect ==
    /\ hasMounted
    /\ effectPending
    /\ LET recalculated == recalculateTrades(trades)
       IN  IF JsonStringify(recalculated) /= JsonStringify(trades)
           THEN /\ trades' = recalculated
                /\ effectPending' = TRUE
           ELSE /\ trades' = trades
                /\ effectPending' = FALSE
    /\ UNCHANGED <<hasMounted, configVars, toast, nextId, events>>

\* The new trade without the sanity ceiling: any positive suggestion is used.
NewTradeInputNoCeiling(id) ==
    LET lastBalance == IF Len(trades) > 0 THEN trades[Len(trades)].accountBalance
                       ELSE initialBalance
        currentRisk == calculateNextRisk(lastBalance, profitTarget, defaultWinMultiplier)
        riskToUse == IF currentRisk /= Undefined /\ Gt(currentRisk, Zero)
                     THEN currentRisk ELSE defaultRiskPercentage
    IN  [id |-> id,
         riskPercentage |-> riskToUse,
         outcome |-> "pending",
         winMultiplier |-> defaultWinMultiplier,
         tradeNumber |-> Undefined, accountSize |-> Undefined, riskAmount |-> Undefined,
         floatingPL |-> Undefined, accountBalance |-> Undefined,
         distanceToTarget |-> Undefined, nextSuggestedRisk |-> Undefined]

\* The trade handleAddTrade builds, lines 177-185.
NewTradeInput(id) ==
    LET lastBalance == IF Len(trades) > 0 THEN trades[Len(trades)].accountBalance
                       ELSE initialBalance
        currentRisk == calculateNextRisk(lastBalance, profitTarget, defaultWinMultiplier)
        riskToUse == IF currentRisk /= Undefined /\ Gt(currentRisk, Zero)
                        /\ Lt(currentRisk, Whole(50))
                     THEN currentRisk ELSE defaultRiskPercentage
    IN  [id |-> id,
         riskPercentage |-> riskToUse,
         outcome |-> "pending",
         winMultiplier |-> defaultWinMultiplier,
         tradeNumber |-> Undefined, accountSize |-> Undefined, riskAmount |-> Undefined,
         floatingPL |-> Undefined, accountBalance |-> Undefined,
         distanceToTarget |-> Undefined, nextSuggestedRisk |-> Undefined]

\* lines 176-188
handleAddTrade ==
    /\ Idle
    /\ Event
    /\ Len(trades) < MaxTrades
    /\ trades' = Append(trades, NewTradeInput(nextId))
    /\ nextId' = nextId + 1
    /\ toast' = [kind |-> "success", text |-> "Trade added."]
    /\ effectPending' = TRUE
    /\ UNCHANGED <<hasMounted, configVars>>

\* lines 190-193
handleDeleteTrade(id) ==
    /\ Idle
    /\ Event
    /\ \E i \in 1..Len(trades) : trades[i].id = id
    /\ trades' = SelectSeq(trades, LAMBDA trade : trade.id /= id)
    /\ toast' = [kind |-> "warning", text |-> "Trade deleted and log recalculated."]
    /\ effectPending' = TRUE
    /\ UNCHANGED <<hasMounted, configVars, nextId>>

\* handleUpdateTradeOutcome without the test of the id: the outcome is set on
\* every trade of the list.
handleUpdateTradeOutcomeAllRows(id, newOutcome) ==
    /\ Idle
    /\ Event
    /\ \E i \in 1..Len(trades) : trades[i].id = id
    /\ trades' = [i \in 1..Len(trades) |->
                    IF trades[i].outcome /= newOutcome
                    THEN [trades[i] EXCEPT !.outcome = newOutcome]
                    ELSE trades[i]]
    /\ toast' = [kind |-> "info", text |-> "Trade outcome updated and log recalculated."]
    /\ effectPending' = TRUE
    /\ UNCHANGED <<hasMounted, configVars, nextId>>

\* lines 195-207
handleUpdateTradeOutcome(id, newOutcome) ==
    /\ Idle
    /\ Event
    /\ \E i \in 1..Len(trades) : trades[i].id = id
    /\ LET outcomeChanged ==
               \E i \in 1..Len(trades) :
                   trades[i].id = id /\ trades[i].outcome /= newOutcome
       IN  /\ trades' = [i \in 1..Len(trades) |->
                           IF trades[i].id = id /\ trades[i].outcome /= newOutcome
                           THEN [trades[i] EXCEPT !.outcome = newOutcome]
                           ELSE trades[i]]
           /\ toast' = IF outcomeChanged
                       THEN [kind |-> "info",
                             text |-> "Trade outcome updated and log recalculated."]
                       ELSE toast
    /\ effectPending' = TRUE
    /\ UNCHANGED <<hasMounted, configVars, nextId>>

\* handleUpdateTradeValue rejecting only what does not parse: a negative
\* number is stored.
handleUpdateTradeValueNoSignTest(id, field, value) ==
    /\ Idle
    /\ Event
    /\ \E i \in 1..Len(trades) : trades[i].id = id
    /\ LET numericValue == ParseFloat(value)
       IN  IF IsNaN(numericValue)
           THEN /\ toast' = [kind |-> "error", text |-> "Invalid value."]
                /\ UNCHANGED <<trades, effectPending>>
           ELSE /\ trades' = [i \in 1..Len(trades) |->
                                 IF trades[i].id = id /\ trades[i][field] /= numericValue
                                 THEN [trades[i] EXCEPT ![field] = numericValue]
                                 ELSE trades[i]]
                /\ toast' = [kind |-> "info",
                             text |-> "Trade value updated and log recalculated."]
                /\ effectPending' = TRUE
    /\ UNCHANGED <<hasMounted, configVars, nextId>>

\* lines 209-226
handleUpdateTradeValue(id, field, value) ==
    /\ Idle
    /\ Event
    /\ \E i \in 1..Len(trades) : trades[i].id = id
    /\ LET numericValue == ParseFloat(value)
       IN  IF IsNaN(numericValue) \/ Lt(numericValue, Zero)
           THEN /\ toast' = [kind |-> "error", text |-> "Invalid value."]
                /\ UNCHANGED <<trades, effectPending>>
           ELSE LET valueChanged ==
                        \E i \in 1..Len(trades) :
                            trades[i].id = id /\ trades[i][field] /= numericValue
                IN  /\ trades' = [i \in 1..Len(trades) |->
                                    IF trades[i].id = id /\ trades[i][field] /= numericValue
                                    THEN [trades[i] EXCEPT ![field] = numericValue]
                                    ELSE trades[i]]
                    /\ toast' = IF valueChanged
                                THEN [kind |-> "info",
                                      text |-> "Trade value updated and log recalculated."]
                                ELSE toast
                    /\ effectPending' = TRUE
    /\ UNCHANGED <<hasMounted, configVars, nextId>>

\* lines 228-231; the button is rendered for a non-empty list only (352-356)
handleClearTrades ==
    /\ Idle
    /\ Event
    /\ Len(trades) > 0
    /\ trades' = <<>>
    /\ toast' = [kind |-> "success", text |-> "All trades cleared."]
    /\ effectPending' = TRUE
    /\ UNCHANGED <<hasMounted, configVars, nextId>>

\* lines 233-238, with the setter of the field the input belongs to
handlePositiveNumberChange(setter, value) ==
    /\ Idle
    /\ Event
    /\ LET accepted == value = <<>> \/ MatchesDecimalPattern(value)
           set(field, old) == IF accepted /\ setter = field THEN value ELSE old
           newBalanceStr == set("initialBalance", initialBalanceStr)
           newTargetStr == set("profitTarget", profitTargetStr)
           newMultiplierStr == set("defaultWinMultiplier", defaultWinMultiplierStr)
       IN  /\ initialBalanceStr' = newBalanceStr
           /\ profitTargetStr' = newTargetStr
           /\ defaultRiskPercentageStr' = set("defaultRiskPercentage", defaultRiskPercentageStr)
           /\ defaultWinMultiplierStr' = newMultiplierStr
           /\ effectPending' =
                 (EffectDepsOf(newBalanceStr, newTargetStr, newMultiplierStr)
                    /= EffectDepsOf(initialBalanceStr, profitTargetStr, defaultWinMultiplierStr))
    /\ UNCHANGED <<hasMounted, trades, toast, nextId>>

Next ==
    \/ Mount
    \/ RecalculationEffect
    \/ handleAddTrade
    \/ \E id \in Ids : handleDeleteTrade(id)
    \/ \E id \in Ids, newOutcome \in Outcomes : handleUpdateTradeOutcome(id, newOutcome)
    \/ \E id \in Ids, field \in TradeFields :
          \E value \in TradeInputs(field) : handleUpdateTradeValue(id, field, value)
    \/ handleClearTrades
    \/ \E setter \in ConfigFields, value \in ConfigInputs :
          handlePositiveNumberChange(setter, value)

Spec == Init /\ [][Next]_vars

(***************************************************************************)
(* The calculator constructed over a key-value store that already holds    *)
(* values for the four configuration keys.  useLocalStorage hands the      *)
(* stored string to the component as it is (section 6: the values are      *)
(* consumed as strings from an external key-value store).                  *)
(***************************************************************************)
NegativeConfig ==
    [initialBalance |-> <<"-", "5">>,
     profitTarget |-> <<"-", "5">>,
     defaultRiskPercentage |-> <<"-", "5">>,
     defaultWinMultiplier |-> <<"-", "2">>]

UnparsableConfig ==
    [initialBalance |-> <<"x">>,
     profitTarget |-> <<"x">>,
     defaultRiskPercentage |-> <<"x">>,
     defaultWinMultiplier |-> <<"x">>]

ZeroTargetConfig ==
    [initialBalance |-> <<"1", "0", "0">>,
     profitTarget |-> <<"0">>,
     defaultRiskPercentage |-> <<"2">>,
     defaultWinMultiplier |-> <<"2">>]

InfiniteConfig ==
    [initialBalance |-> InfinityLiteral,
     profitTarget |-> <<>>,
     defaultRiskPercentage |-> <<"1">>,
     defaultWinMultiplier |-> <<"2">>]

StoreContents == { NegativeConfig, UnparsableConfig, ZeroTargetConfig, InfiniteConfig }

StoreInit ==
    /\ hasMounted = FALSE
    /\ \E c \in StoreContents :
          /\ initialBalanceStr = c.initialBalance
          /\ profitTargetStr = c.profitTarget
          /\ defaultRiskPercentageStr = c.defaultRiskPercentage
          /\ defaultWinMultiplierStr = c.defaultWinMultiplier
    /\ trades = <<>>
    /\ toast = NoToast
    /\ effectPending = FALSE
    /\ nextId = 1
    /\ events = 0

StoreSpec == StoreInit /\ [][Next]_vars

(***************************************************************************)
(* IEEE 754 doubles.  The ledger arithmetic of the code runs on JavaScript *)
(* numbers, which are binary floating-point numbers with a significand of  *)
(* 53 bits, every operation rounded to the nearest such number, ties to    *)
(* the even significand.  Here a finite double is the exact value          *)
(* sign * mant * 2^exp with mant an odd natural number below 2^53 (or 0),  *)
(* held as a sequence of limbs because it does not fit the integers of the *)
(* model checker.  The exponent range is not modelled: no value explored   *)
(* comes near an overflow or a subnormal number.  The sign of a zero is    *)
(* not modelled either: the code never divides by a zero it computed.      *)
(*                                                                         *)
(* An intermediate value is handed on as the argument of the next          *)
(* definition, so that it is computed once.                                *)
(***************************************************************************)
LimbBits == 15
LimbBase == 2^LimbBits

\* Natural numbers as sequences of limbs, least significant first, with no
\* zero limb at the top.
Limb(a, i) == IF i <= Len(a) THEN a[i] ELSE 0

RECURSIVE BigOf(_)
BigOf(n) == IF n = 0 THEN <<>> ELSE <<n % LimbBase>> \o BigOf(n \div LimbBase)

RECURSIVE BigTrim(_)
BigTrim(a) ==
    IF a = <<>> THEN <<>>
    ELSE IF a[Len(a)] = 0 THEN BigTrim(SubSeq(a, 1, Len(a) - 1)) ELSE a

RECURSIVE BigCmpFrom(_, _, _)
BigCmpFrom(a, b, i) ==
    IF i = 0 THEN 0
    ELSE IF a[i] < b[i] THEN 0 - 1
    ELSE IF a[i] > b[i] THEN 1
    ELSE BigCmpFrom(a, b, i - 1)

\* -1, 0 or 1 as a is below, equal to or above b
BigCmp(a, b) ==
    IF Len(a) < Len(b) THEN 0 - 1
    ELSE IF Len(a) > Len(b) THEN 1
    ELSE BigCmpFrom(a, b, Len(a))

RECURSIVE BigAddFrom(_, _, _, _)
BigAddFrom(a, b, i, carry) ==
    IF i > Len(a) /\ i > Len(b)
    THEN (IF carry = 0 THEN <<>> ELSE <<carry>>)
    ELSE <<(Limb(a, i) + Limb(b, i) + carry) % LimbBase>>
            \o BigAddFrom(a, b, i + 1, (Limb(a, i) + Limb(b, i) + carry) \div LimbBase)

BigAdd(a, b) == BigAddFrom(a, b, 1, 0)

\* a - b for a >= b
RECURSIVE BigSubFrom(_, _, _, _)
BigSubFrom(a, b, i, borrow) ==
    IF i > Len(a) THEN <<>>
    ELSE <<(a[i] - Limb(b, i) - borrow + LimbBase) % LimbBase>>
            \o BigSubFrom(a, b, i + 1, IF a[i] - Limb(b, i) - borrow < 0 THEN 1 ELSE 0)

BigSub(a, b) == BigTrim(BigSubFrom(a, b, 1, 0))

\* a * k for 0 <= k < LimbBase
RECURSIVE BigMulSmallFrom(_, _, _, _)
BigMulSmallFrom(a, k, i, carry) ==
    IF i > Len(a)
    THEN (IF carry = 0 THEN <<>> ELSE <<carry>>)
    ELSE <<(a[i] * k + carry) % LimbBase>>
            \o BigMulSmallFrom(a, k, i + 1, (a[i] * k + carry) \div LimbBase)

BigMulSmall(a, k) == IF k = 0 THEN <<>> ELSE BigMulSmallFrom(a, k, 1, 0)

\* a * LimbBase
BigUp(a) == IF a = <<>> THEN <<>> ELSE <<0>> \o a

RECURSIVE BigMul(_, _)
BigMul(a, b) ==
    IF b = <<>> THEN <<>>
    ELSE BigAdd(BigMulSmall(a, b[1]), BigUp(BigMul(a, Tail(b))))

RECURSIVE BitLen(_)
BitLen(n) == IF n = 0 THEN 0 ELSE 1 + BitLen(n \div 2)

BigBitLen(a) == IF a = <<>> THEN 0 ELSE (Len(a) - 1) * LimbBits + BitLen(a[Len(a)])

\* a * 2^n
BigShl(a, n) ==
    IF a = <<>> THEN <<>>
    ELSE [i \in 1..(n \div LimbBits) |-> 0] \o BigMulSmall(a, 2^(n % LimbBits))

\* the limbs of rest moved down by part bits, part below LimbBits
BigShrLimbs(rest, part) ==
    BigTrim([i \in 1..Len(rest) |->
                (rest[i] \div 2^part) + (Limb(rest, i + 1) % 2^part) * 2^(LimbBits - part)])

\* floor(a / 2^n)
BigShr(a, n) ==
    BigShrLimbs(IF n \div LimbBits >= Len(a) THEN <<>>
                ELSE SubSeq(a, n \div LimbBits + 1, Len(a)),
                n % LimbBits)

\* bit i of a, bit 0 the least significant
BigBit(a, i) == (Limb(a, i \div LimbBits + 1) \div 2^(i % LimbBits)) % 2

\* The quotient q2 and the remainder r2 after one more bit, with the divisor
\* taken out of the remainder where it fits.
BigDivModCompare(q2, r2, d) ==
    IF BigCmp(r2, d) >= 0 THEN <<BigAdd(q2, <<1>>), BigSub(r2, d)>> ELSE <<q2, r2>>

\* One step of binary long division of n by d > 0: qr holds the quotient and
\* the remainder of the bits of n above bit i, the result those of the bits
\* from bit i upwards.
BigDivModStep(n, d, i, qr) ==
    BigDivModCompare(BigMulSmall(qr[1], 2),
                     BigAdd(BigMulSmall(qr[2], 2), BigOf(BigBit(n, i))), d)

\* (The test of qr has it computed at every level of the recursion.)
RECURSIVE BigDivModFrom(_, _, _, _)
BigDivModFrom(n, d, i, qr) ==
    IF i < 0 \/ Len(qr) /= 2 THEN qr
    ELSE BigDivModFrom(n, d, i - 1, BigDivModStep(n, d, i, qr))

\* The bits of n above the lowest `low` are less than d: the division starts
\* below them.
BigDivModBelow(n, d, low) ==
    IF low <= 0 THEN <<<<>>, n>>
    ELSE BigDivModFrom(n, d, low - 1, <<<<>>, BigShr(n, low)>>)

\* <<floor(n / d), n mod d>> for d > 0
BigDivMod(n, d) == BigDivModBelow(n, d, BigBitLen(n) - (BigBitLen(d) - 1))

RECURSIVE TrailingZeros(_, _)
TrailingZeros(a, i) == IF BigBit(a, i) = 1 THEN i ELSE TrailingZeros(a, i + 1)

MantissaBits == 53

Double(s, m, e) == [kind |-> "number", sign |-> s, mant |-> m, exp |-> e]
DoubleZero == Double(0, <<>>, 0)
DoubleNaN == [kind |-> "NaN", sign |-> 0, mant |-> <<>>, exp |-> 0]
DoubleInfinity(s) == [kind |-> "Infinity", sign |-> s, mant |-> <<>>, exp |-> 0]
DoubleUndefined == [kind |-> "undefined", sign |-> 0, mant |-> <<>>, exp |-> 0]
DoubleNull == [kind |-> "null", sign |-> 0, mant |-> <<>>, exp |-> 0]

CanonicalShifted(s, m, e, tz) == Double(s, BigShr(m, tz), e + tz)

\* s * m * 2^e with the mantissa made odd
Canonical(s, m, e) ==
    IF m = <<>> \/ s = 0 THEN DoubleZero
    ELSE CanonicalShifted(s, m, e, TrailingZeros(m, 0))

\* q or q + 1, as the dropped bits compare (c) with half a unit of q: up
\* above the half, and at the half when q is odd.
RoundNearestEven(q, c) ==
    IF c > 0 \/ (c = 0 /\ BigBit(q, 0) = 1) THEN BigAdd(q, <<1>>) ELSE q

\* m without its lowest `drop` bits (q), rounded
RoundKept(m, q, drop) ==
    RoundNearestEven(q, BigCmp(BigSub(m, BigShl(q, drop)), BigShl(<<1>>, drop - 1)))

RoundDropping(s, m, e, drop) ==
    Canonical(s, RoundKept(m, BigShr(m, drop), drop), e + drop)

\* The double nearest to s * m * 2^e, ties to the even significand.
RoundToDouble(s, m, e) ==
    IF BigBitLen(m) <= MantissaBits THEN Canonical(s, m, e)
    ELSE RoundDropping(s, m, e, BigBitLen(m) - MantissaBits)

\* The quotient with one more bit, which records whether the division left
\* a remainder, rounded.
RoundQuotientOf(s, qr, e) ==
    RoundToDouble(s, BigAdd(BigMulSmall(qr[1], 2), IF qr[2] = <<>> THEN <<>> ELSE <<1>>), e)

RoundQuotientScaled(s, n, d, e, k) ==
    RoundQuotientOf(s, BigDivMod(BigShl(n, k), d), e - k - 1)

\* The double nearest to s * (n / d) * 2^e, for naturals n > 0 and d > 0:
\* the quotient is taken to 56 bits or more.
RoundQuotient(s, n, d, e) ==
    RoundQuotientScaled(s, n, d, e,
        IF MantissaBits + 3 + BigBitLen(d) - BigBitLen(n) < 0 THEN 0
        ELSE MantissaBits + 3 + BigBitLen(d) - BigBitLen(n))

DoubleOf(i) ==
    Canonical(IF i < 0 THEN 0 - 1 ELSE IF i > 0 THEN 1 ELSE 0,
              BigOf(IF i < 0 THEN 0 - i ELSE i), 0)

DoubleIsNaN(x) == x.kind = "NaN"
DoubleIsFinite(x) == x.kind = "number"

DoubleNeg(x) == [x EXCEPT !.sign = 0 - x.sign]

DoubleMul(x, y) ==
    IF DoubleIsNaN(x) \/ DoubleIsNaN(y) THEN DoubleNaN
    ELSE IF ~DoubleIsFinite(x) \/ ~DoubleIsFinite(y)
         THEN (IF x.sign * y.sign = 0 THEN DoubleNaN ELSE DoubleInfinity(x.sign * y.sign))
    ELSE RoundToDouble(x.sign * y.sign, BigMul(x.mant, y.mant), x.exp + y.exp)

DoubleDiv(x, y) ==
    IF DoubleIsNaN(x) \/ DoubleIsNaN(y) THEN DoubleNaN
    ELSE IF ~DoubleIsFinite(x)
         THEN (IF ~DoubleIsFinite(y) THEN DoubleNaN
               ELSE DoubleInfinity(IF y.sign < 0 THEN 0 - x.sign ELSE x.sign))
    ELSE IF ~DoubleIsFinite(y) THEN DoubleZero
    ELSE IF y.sign = 0
         THEN (IF x.sign = 0 THEN DoubleNaN ELSE DoubleInfinity(x.sign))
    ELSE IF x.sign = 0 THEN DoubleZero
    ELSE RoundQuotient(x.sign * y.sign, x.mant, y.mant, x.exp - y.exp)

\* x + y for finite x and y of the same sign (s), or of opposite signs with
\* their magnitudes a * 2^e and b * 2^e compared (c)
DoubleAddSigned(x, y, a, b, e, c) ==
    IF x.sign = y.sign THEN RoundToDouble(x.sign, BigAdd(a, b), e)
    ELSE IF c = 0 THEN DoubleZero
    ELSE IF c > 0 THEN RoundToDouble(x.sign, BigSub(a, b), e)
    ELSE RoundToDouble(y.sign, BigSub(b, a), e)

DoubleAddAligned(x, y, a, b, e) == DoubleAddSigned(x, y, a, b, e, BigCmp(a, b))

\* x + y for finite x and y other than 0, both written over the exponent e
DoubleAddAt(x, y, e) ==
    DoubleAddAligned(x, y, BigShl(x.mant, x.exp - e), BigShl(y.mant, y.exp - e), e)

DoubleAdd(x, y) ==
    IF DoubleIsNaN(x) \/ DoubleIsNaN(y) THEN DoubleNaN
    ELSE IF ~DoubleIsFinite(x)
         THEN (IF ~DoubleIsFinite(y) /\ x.sign /= y.sign THEN DoubleNaN ELSE x)
    ELSE IF ~DoubleIsFinite(y) THEN y
    ELSE IF x.sign = 0 THEN y
    ELSE IF y.sign = 0 THEN x
    ELSE DoubleAddAt(x, y, IF x.exp < y.exp THEN x.exp ELSE y.exp)

DoubleSub(x, y) == DoubleAdd(x, DoubleNeg(y))

\* <, <= and >: every comparison with NaN is false (the sign of NaN is 0)
DoubleLt(x, y) == DoubleSub(y, x).sign > 0
DoubleGt(x, y) == DoubleLt(y, x)
DoubleLe(x, y) == ~DoubleIsNaN(x) /\ ~DoubleIsNaN(y) /\ (x = y \/ DoubleLt(x, y))

(***************************************************************************)
(* The calculator on doubles: the configuration, the ledger functions and  *)
(* the handlers that compute with numbers, written over the doubles above. *)
(* The handlers that only move trades (delete, set an outcome, clear) are  *)
(* the ones defined already.                                               *)
(***************************************************************************)
\* The double nearest to sign * digits / 10^places.
DoubleDecimal(sign, digits, places) ==
    IF digits = 0 THEN DoubleZero
    ELSE IF places = 0 THEN RoundToDouble(sign, BigOf(digits), 0)
    ELSE RoundQuotient(sign, BigOf(digits), BigOf(Pow10(places)), 0)

\* parseFloat(s) as a double, for the il digits of s from position start and
\* the fl digits behind the point: their decimal value, rounded once.
ParseDigitsDouble(s, sign, start, il, fl) ==
    IF Len(s) >= start + 7 /\ SubSeq(s, start, start + 7) = InfinityLiteral
    THEN DoubleInfinity(sign)
    ELSE IF il + fl = 0 THEN DoubleNaN
    ELSE DoubleDecimal(sign,
            DigitsValue(s, start, il) * Pow10(fl) + DigitsValue(s, start + il + 1, fl), fl)

ParseFractionDouble(s, sign, start, il) ==
    ParseDigitsDouble(s, sign, start, il,
        IF start + il <= Len(s) /\ s[start + il] = "."
        THEN DigitRun(s, start + il + 1) ELSE 0)

ParseUnsignedDouble(s, sign, start) ==
    ParseFractionDouble(s, sign, start, DigitRun(s, start))

\* parseFloat(s): the longest prefix [+-]digits[.digits] with at least one
\* digit, or [+-]Infinity; NaN when there is neither.
ParseFloatDouble(s) ==
    IF Len(s) > 0 /\ s[1] \in {"-", "+"}
    THEN ParseUnsignedDouble(s, IF s[1] = "-" THEN 0 - 1 ELSE 1, 2)
    ELSE ParseUnsignedDouble(s, 1, 1)

\* x || 0 : NaN and 0 are falsy
OrZeroDouble(x) == IF DoubleIsNaN(x) THEN DoubleZero ELSE x

\* parseFloat(str) || 0, lines 92-94
ParsedOrZeroDouble(str) == OrZeroDouble(ParseFloatDouble(str))

\* the literal 1.08 of line 98
DefaultGrowthDouble == DoubleDecimal(1, 108, 2)

\* line 98
ProfitTargetFromDouble(userTarget, balance) ==
    IF ~DoubleIsNaN(userTarget) /\ DoubleGt(userTarget, DoubleZero)
    THEN userTarget
    ELSE DoubleMul(balance, DefaultGrowthDouble)

\* lines 96-99, for a profit target string and an initial balance
ProfitTargetOfDouble(targetStr, balance) ==
    ProfitTargetFromDouble(ParseFloatDouble(targetStr), balance)

initialBalanceDouble == ParsedOrZeroDouble(initialBalanceStr)
defaultRiskPercentageDouble == ParsedOrZeroDouble(defaultRiskPercentageStr)
defaultWinMultiplierDouble == ParsedOrZeroDouble(defaultWinMultiplierStr)
profitTargetDouble == ProfitTargetOfDouble(profitTargetStr, initialBalanceDouble)

\* lines 125-132: the row returned
TradeRowDouble(trade, accountSize, target, riskAmount, floatingPL, accountBalance, distance) ==
    [trade EXCEPT
        !.accountSize = accountSize,
        !.riskAmount = IF DoubleIsNaN(riskAmount) THEN DoubleZero ELSE riskAmount,
        !.floatingPL = IF DoubleIsNaN(floatingPL) THEN DoubleZero ELSE floatingPL,
        !.accountBalance = IF DoubleIsNaN(accountBalance) THEN accountSize ELSE accountBalance,
        !.distanceToTarget = IF DoubleIsNaN(distance)
                             THEN DoubleSub(target, accountSize) ELSE distance]

\* line 123
TradeRowWithBalanceDouble(trade, accountSize, target, riskAmount, floatingPL, accountBalance) ==
    TradeRowDouble(trade, accountSize, target, riskAmount, floatingPL, accountBalance,
                   DoubleSub(target, accountBalance))

\* line 122
TradeRowWithPLDouble(trade, accountSize, target, riskAmount, floatingPL) ==
    TradeRowWithBalanceDouble(trade, accountSize, target, riskAmount, floatingPL,
                              DoubleAdd(accountSize, floatingPL))

\* lines 113-120
TradeRowWithRiskDouble(trade, accountSize, target, riskAmount) ==
    TradeRowWithPLDouble(trade, accountSize, target, riskAmount,
        CASE trade.outcome = "win" -> DoubleMul(riskAmount, trade.winMultiplier)
          [] trade.outcome = "loss" -> DoubleNeg(riskAmount)
          [] trade.outcome = "partial win" ->
                DoubleDiv(DoubleMul(riskAmount, trade.winMultiplier), DoubleOf(2))
          [] OTHER -> DoubleZero)

\* lines 107-133
calculateTradeRowDouble(trade, previousBalance, target) ==
    TradeRowWithRiskDouble(trade, previousBalance, target,
        DoubleMul(previousBalance, DoubleDiv(trade.riskPercentage, DoubleOf(100))))

\* line 141
FiniteOrUndefinedDouble(risk) ==
    IF DoubleIsNaN(risk) \/ ~DoubleIsFinite(risk) THEN DoubleUndefined ELSE risk

\* lines 137-141
NextRiskFromDouble(currentBal, multiplier, remainingNeeded) ==
    IF DoubleLe(remainingNeeded, DoubleZero) \/ DoubleLe(currentBal, DoubleZero)
          \/ DoubleLe(multiplier, DoubleZero)
    THEN DoubleUndefined
    ELSE FiniteOrUndefinedDouble(
            DoubleMul(DoubleDiv(remainingNeeded, DoubleMul(currentBal, multiplier)),
                      DoubleOf(100)))

\* lines 135-142
calculateNextRiskDouble(currentBal, target, multiplier) ==
    NextRiskFromDouble(currentBal, multiplier, DoubleSub(target, currentBal))

\* lines 149-154
RowWithNextRiskDouble(calculatedCoreTrade, index) ==
    [calculatedCoreTrade EXCEPT
        !.tradeNumber = DoubleOf(index),
        !.nextSuggestedRisk =
            calculateNextRiskDouble(calculatedCoreTrade.accountBalance, profitTargetDouble,
                                    defaultWinMultiplierDouble)]

\* The body of the map callback of recalculateTrades, lines 146-155.
RecalculatedRowDouble(trade, index, cumulativeBalance) ==
    RowWithNextRiskDouble(
        calculateTradeRowDouble(trade, cumulativeBalance, profitTargetDouble), index)

RECURSIVE RecalculateFromDouble(_, _, _)

\* line 148: the row's ending balance is carried into the next trade
RecalculateAfterDouble(currentTrades, index, row) ==
    <<row>> \o RecalculateFromDouble(currentTrades, index + 1, row.accountBalance)

RecalculateFromDouble(currentTrades, index, cumulativeBalance) ==
    IF index > Len(currentTrades) THEN <<>>
    ELSE RecalculateAfterDouble(currentTrades, index,
            RecalculatedRowDouble(currentTrades[index], index, cumulativeBalance))

\* lines 144-156
recalculateTradesDouble(currentTrades) ==
    RecalculateFromDouble(currentTrades, 1, initialBalanceDouble)

\* JSON.stringify of one number-valued field: NaN and the infinities are
\* written as null.
JsonValueDouble(x) == IF x.kind \in {"NaN", "Infinity"} THEN DoubleNull ELSE x

JsonTradeDouble(t) ==
    [id |-> t.id, outcome |-> t.outcome,
     tradeNumber |-> JsonValueDouble(t.tradeNumber),
     accountSize |-> JsonValueDouble(t.accountSize),
     riskPercentage |-> JsonValueDouble(t.riskPercentage),
     riskAmount |-> JsonValueDouble(t.riskAmount),
     winMultiplier |-> JsonValueDouble(t.winMultiplier),
     floatingPL |-> JsonValueDouble(t.floatingPL),
     accountBalance |-> JsonValueDouble(t.accountBalance),
     distanceToTarget |-> JsonValueDouble(t.distanceToTarget),
     nextSuggestedRisk |-> JsonValueDouble(t.nextSuggestedRisk)]

\* JSON.stringify(list), line 171
JsonStringifyDouble(list) == [i \in 1..Len(list) |-> JsonTradeDouble(list[i])]

\* Strings typed into the four configuration fields.
ConfigInputsDouble == { <<"6">>, <<"1", "9">> }

\* Strings the two number cells of a row hand to onChange.
TradeInputsDouble(field) ==
    IF field = "riskPercentage" THEN { <<>>, <<"1">> }
    ELSE { <<"-", "0", ".", "5">>, <<"2">> }

\* lines 168-174
RecalculationEffectDouble ==
    /\ hasMounted
    /\ effectPending
    /\ \E recalculated \in {recalculateTradesDouble(trades)} :
          IF JsonStringifyDouble(recalculated) /= JsonStringifyDouble(trades)
          THEN /\ trades' = recalculated
               /\ effectPending' = TRUE
          ELSE /\ trades' = trades
               /\ effectPending' = FALSE
    /\ UNCHANGED <<hasMounted, configVars, toast, nextId, events>>

\* line 179
RiskToUseDouble(currentRisk) ==
    IF currentRisk /= DoubleUndefined /\ DoubleGt(currentRisk, DoubleZero)
          /\ DoubleLt(currentRisk, DoubleOf(50))
    THEN currentRisk ELSE defaultRiskPercentageDouble

\* The trade handleAddTrade builds, lines 177-185.
NewTradeInputDouble(id) ==
    [id |-> id,
     riskPercentage |->
        RiskToUseDouble(
            calculateNextRiskDouble(
                IF Len(trades) > 0 THEN trades[Len(trades)].accountBalance
                ELSE initialBalanceDouble,
                profitTargetDouble, defaultWinMultiplierDouble)),
     outcome |-> "pending",
     winMultiplier |-> defaultWinMultiplierDouble,
     tradeNumber |-> DoubleUndefined, accountSize |-> DoubleUndefined,
     riskAmount |-> DoubleUndefined, floatingPL |-> DoubleUndefined,
     accountBalance |-> DoubleUndefined, distanceToTarget |-> DoubleUndefined,
     nextSuggestedRisk |-> DoubleUndefined]

\* lines 176-188
handleAddTradeDouble ==
    /\ Idle
    /\ Event
    /\ Len(trades) < MaxTrades
    /\ trades' = Append(trades, NewTradeInputDouble(nextId))
    /\ nextId' = nextId + 1
    /\ toast' = [kind |-> "success", text |-> "Trade added."]
    /\ effectPending' = TRUE
    /\ UNCHANGED <<hasMounted, configVars>>

\* lines 209-226
handleUpdateTradeValueDouble(id, field, value) ==
    /\ Idle
    /\ Event
    /\ \E i \in 1..Len(trades) : trades[i].id = id
    /\ \E numericValue \in {ParseFloatDouble(value)} :
          IF DoubleIsNaN(numericValue) \/ DoubleLt(numericValue, DoubleZero)
          THEN /\ toast' = [kind |-> "error", text |-> "Invalid value."]
               /\ UNCHANGED <<trades, effectPending>>
          ELSE /\ trades' = [i \in 1..Len(trades) |->
                                IF trades[i].id = id /\ trades[i][field] /= numericValue
                                THEN [trades[i] EXCEPT ![field] = numericValue]
                                ELSE trades[i]]
               /\ toast' = IF \E i \in 1..Len(trades) :
                                 trades[i].id = id /\ trades[i][field] /= numericValue
                           THEN [kind |-> "info",
                                 text |-> "Trade value updated and log recalculated."]
                           ELSE toast
               /\ effectPending' = TRUE
    /\ UNCHANGED <<hasMounted, configVars, nextId>>

\* The values the recalculation effect depends on (line 174).
EffectDepsOfDouble(balanceStr, targetStr, multiplierStr) ==
    <<ParsedOrZeroDouble(balanceStr),
      ProfitTargetOfDouble(targetStr, ParsedOrZeroDouble(balanceStr)),
      ParsedOrZeroDouble(multiplierStr)>>

\* lines 233-238, with the setter of the field the input belongs to
handlePositiveNumberChangeDouble(setter, value) ==
    /\ Idle
    /\ Event
    /\ LET accepted == value = <<>> \/ MatchesDecimalPattern(value)
           set(field, old) == IF accepted /\ setter = field THEN value ELSE old
           newBalanceStr == set("initialBalance", initialBalanceStr)
           newTargetStr == set("profitTarget", profitTargetStr)
           newMultiplierStr == set("defaultWinMultiplier", defaultWinMultiplierStr)
       IN  /\ initialBalanceStr' = newBalanceStr
           /\ profitTargetStr' = newTargetStr
           /\ defaultRiskPercentageStr' = set("defaultRiskPercentage", defaultRiskPercentageStr)
           /\ defaultWinMultiplierStr' = newMultiplierStr
           /\ effectPending' =
                 (EffectDepsOfDouble(newBalanceStr, newTargetStr, newMultiplierStr)
                    /= EffectDepsOfDouble(initialBalanceStr, profitTargetStr,
                                          defaultWinMultiplierStr))
    /\ UNCHANGED <<hasMounted, trades, toast, nextId>>

NextDouble ==
    \/ Mount
    \/ RecalculationEffectDouble
    \/ handleAddTradeDouble
    \/ \E id \in Ids : handleDeleteTrade(id)
    \/ \E id \in Ids, newOutcome \in Outcomes : handleUpdateTradeOutcome(id, newOutcome)
    \/ \E id \in Ids, field \in TradeFields :
          \E value \in TradeInputsDouble(field) : handleUpdateTradeValueDouble(id, field, value)
    \/ handleClearTrades
    \/ \E setter \in ConfigFields, value \in ConfigInputsDouble :
          handlePositiveNumberChangeDouble(setter, value)

SpecDouble == Init /\ [][NextDouble]_vars

(***************************************************************************)
(* Properties.                                                             *)
(***************************************************************************)
\* The list the recalculation makes of the list held in state.
Recomputed == recalculateTrades(trades)

\* The profit or loss of a trade with the given risk amount, written out
\* from section 4.1, step 2.
ExpectedPL(outcome, riskAmount, winMultiplier) ==
    CASE outcome = "win" -> Mul(riskAmount, winMultiplier)
      [] outcome = "partial win" -> Div(Mul(riskAmount, winMultiplier), Whole(2))
      [] outcome = "loss" -> Neg(riskAmount)
      [] outcome \in {"breakeven", "pending"} -> Zero

\* The suggested risk written out from section 4.1, step 5.
ExpectedRisk(endingBalance, target, winMultiplier) ==
    IF Le(Sub(target, endingBalance), Zero) \/ Le(endingBalance, Zero)
          \/ Le(winMultiplier, Zero)
    THEN Undefined
    ELSE Mul(Div(Sub(target, endingBalance), Mul(endingBalance, winMultiplier)),
             Whole(100))

\* C1: in every recomputed list the first trade starts from the initial
\* balance and every later trade starts from the ending balance of the trade
\* before it.
C1_ChainedBalances ==
    \A list \in {Recomputed} : \A i \in 1..Len(list) :
        list[i].accountSize =
            IF i = 1 THEN initialBalance ELSE list[i - 1].accountBalance

\* C1 witness: a stored recomputed list of two trades whose first trade moved
\* the balance.
C1_Witness ==
    /\ Idle
    /\ Len(trades) = 2
    /\ trades[1].accountBalance /= initialBalance
    /\ trades[2].accountSize = trades[1].accountBalance

\* C2: every trade of a recomputed list has riskAmount = b * risk / 100,
\* floatingPL by its outcome, endingBalance = b + floatingPL and
\* distanceToTarget = target - endingBalance, b being its starting balance;
\* with balance 10000, target 10800 and a first trade of risk 1, multiplier
\* 6.5 and outcome win these are 100, 650, 10650 and 150.
C2_DerivedAmounts ==
    /\ \A list \in {Recomputed} : \A i \in 1..Len(list) :
          LET t == list[i]
              b == t.accountSize
          IN  /\ t.riskAmount = Mul(b, Div(t.riskPercentage, Whole(100)))
              /\ t.floatingPL = ExpectedPL(t.outcome, t.riskAmount, t.winMultiplier)
              /\ t.accountBalance = Add(b, t.floatingPL)
              /\ t.distanceToTarget = Sub(profitTarget, t.accountBalance)
    /\ ( /\ Len(trades) >= 1
         /\ initialBalance = Whole(10000)
         /\ profitTarget = Whole(10800)
         /\ trades[1].riskPercentage = Whole(1)
         /\ trades[1].winMultiplier = Norm(13, 2)
         /\ trades[1].outcome = "win" )
       => \A list \in {Recomputed} :
             /\ list[1].riskAmount = Whole(100)
             /\ list[1].floatingPL = Whole(650)
             /\ list[1].accountBalance = Whole(10650)
             /\ list[1].distanceToTarget = Whole(150)

\* C2 witness: the scenario's trade, recomputed and stored.
C2_Witness ==
    /\ Idle
    /\ Len(trades) = 1
    /\ initialBalance = Whole(10000)
    /\ profitTarget = Whole(10800)
    /\ trades[1].riskPercentage = Whole(1)
    /\ trades[1].winMultiplier = Norm(13, 2)
    /\ trades[1].outcome = "win"
    /\ trades[1].accountBalance = Whole(10650)

\* C3 as stated: the suggested next risk of a trade is computed with the win
\* multiplier of that same trade.
C3_OwnMultiplier ==
    \A list \in {Recomputed} : \A i \in 1..Len(list) :
        list[i].nextSuggestedRisk =
            ExpectedRisk(list[i].accountBalance, profitTarget, list[i].winMultiplier)

\* C3 amended: the suggested next risk of a trade is undefined when
\* target - endingBalance <= 0 or endingBalance <= 0 or the configured
\* default win multiplier <= 0, and is otherwise
\* ((target - endingBalance) / (endingBalance * default multiplier)) * 100.
C3_DefaultMultiplier ==
    \A list \in {Recomputed} : \A i \in 1..Len(list) :
        list[i].nextSuggestedRisk =
            ExpectedRisk(list[i].accountBalance, profitTarget, defaultWinMultiplier)

\* C3 witness: a stored trade whose own multiplier is not the default and
\* whose suggestion is a number other than the one its own multiplier gives.
C3_Witness ==
    /\ Idle
    /\ \E i \in 1..Len(trades) :
          /\ trades[i].winMultiplier /= defaultWinMultiplier
          /\ trades[i].nextSuggestedRisk /= Undefined
          /\ trades[i].nextSuggestedRisk /=
                ExpectedRisk(trades[i].accountBalance, profitTarget, trades[i].winMultiplier)

\* C4 as stated: floatingPL is strictly positive for win and partial win,
\* strictly negative for loss and zero for breakeven and pending.
C4_StrictSign ==
    \A list \in {Recomputed} : \A i \in 1..Len(list) :
        LET t == list[i]
        IN  /\ t.outcome \in {"win", "partial win"} => Gt(t.floatingPL, Zero)
            /\ t.outcome = "loss" => Lt(t.floatingPL, Zero)
            /\ t.outcome \in {"breakeven", "pending"} => t.floatingPL = Zero

\* C4 amended: floatingPL is zero for breakeven and pending; it is strictly
\* negative for a loss whose starting balance and risk percentage are both
\* strictly positive, and strictly positive for a win or partial win whose
\* starting balance, risk percentage and win multiplier are all strictly
\* positive.
C4_SignWhenPositive ==
    \A list \in {Recomputed} : \A i \in 1..Len(list) :
        LET t == list[i]
            staked == Gt(t.accountSize, Zero) /\ Gt(t.riskPercentage, Zero)
        IN  /\ (t.outcome \in {"win", "partial win"} /\ staked /\ Gt(t.winMultiplier, Zero))
                  => Gt(t.floatingPL, Zero)
            /\ (t.outcome = "loss" /\ staked) => Lt(t.floatingPL, Zero)
            /\ t.outcome \in {"breakeven", "pending"} => t.floatingPL = Zero

\* C4 witness: a stored list with a winning trade and a losing trade, both
\* with money at stake.
C4_Witness ==
    /\ Idle
    /\ \E i, j \in 1..Len(trades) :
          /\ trades[i].outcome \in {"win", "partial win"}
          /\ Gt(trades[i].floatingPL, Zero)
          /\ trades[j].outcome = "loss"
          /\ Lt(trades[j].floatingPL, Zero)

\* C5: a trade of a recomputed list whose ending balance is at or above the
\* profit target has no suggested next risk.
C5_NoRiskAtTarget ==
    \A list \in {Recomputed} : \A i \in 1..Len(list) :
        Le(profitTarget, list[i].accountBalance)
            => list[i].nextSuggestedRisk = Undefined

\* C5 witness: a stored trade that ends exactly on the target, and has no
\* suggestion.
C5_Witness ==
    /\ Idle
    /\ \E i \in 1..Len(trades) :
          /\ trades[i].accountBalance = profitTarget
          /\ trades[i].nextSuggestedRisk = Undefined

\* The fields of a trade that the user sets.
Inputs(t) == <<t.id, t.outcome, t.riskPercentage, t.winMultiplier>>

C7_Idempotent ==
    \A list \in {Recomputed} : \A again \in {recalculateTrades(list)} :
        /\ again = list
        /\ JsonStringify(again) = JsonStringify(list)

\* C7 witness: a list of two trades with a realised profit that the
\* recalculation does change the first time.
C7_Witness ==
    /\ effectPending
    /\ Len(trades) = 2
    /\ trades[1].outcome = "win"
    /\ \E list \in {Recomputed} :
          /\ list /= trades
          /\ list[2].accountSize /= initialBalance

\* C8: the stored list is the recomputed one whenever no recalculation is
\* scheduled; a handler that changes the list schedules the recalculation;
\* and while it is scheduled the only step is the recalculation of the whole
\* list, no handler acts.
C8_RecomputedBeforeNextEvent ==
    /\ [](Idle => trades = recalculateTrades(trades))
    /\ [][ /\ (Idle /\ trades' /= trades) => effectPending'
           /\ (hasMounted /\ effectPending) =>
                 /\ trades' = recalculateTrades(trades)
                 /\ UNCHANGED <<configVars, toast, nextId, events>> ]_vars

\* C8 witness: after three or more events, a stored list of two trades with
\* all derived fields set.
C8_Witness ==
    /\ Idle
    /\ events >= 3
    /\ Len(trades) = 2
    /\ trades[2].accountBalance /= Undefined
    /\ trades[2].accountBalance /= initialBalance

\* C9: an edit of a risk percentage or win multiplier whose input does not
\* parse to a number or is negative raises an error notice and leaves the
\* trade list, and the recalculation schedule, as they were.
C9_InvalidEditRejected ==
    [][ \A id \in Ids, field \in TradeFields :
          \A value \in TradeInputs(field) :
             ( /\ handleUpdateTradeValue(id, field, value)
               /\ (IsNaN(ParseFloat(value)) \/ Lt(ParseFloat(value), Zero)) )
             => /\ trades' = trades
                /\ effectPending' = effectPending
                /\ toast'.kind = "error" ]_vars

\* C9 witness: the error notice is up over a non-empty stored list.
C9_Witness ==
    /\ Idle
    /\ Len(trades) >= 1
    /\ toast.kind = "error"

\* C10: adding a trade appends one trade with outcome pending, the default
\* win multiplier, and as risk percentage the suggestion s for the current
\* balance when s is defined and 0 < s < 50, the default risk percentage
\* otherwise; the trades before it are unchanged, also by the recalculation.
C10_AddTrade ==
    [][ handleAddTrade =>
          LET n == Len(trades)
              balance == IF n > 0 THEN trades[n].accountBalance ELSE initialBalance
              s == ExpectedRisk(balance, profitTarget, defaultWinMultiplier)
              added == trades'[n + 1]
              result == recalculateTrades(trades')
          IN  /\ Len(trades') = n + 1
              /\ SubSeq(trades', 1, n) = trades
              /\ SubSeq(result, 1, n) = trades
              /\ Len(result) = n + 1
              /\ added.outcome = "pending"
              /\ added.winMultiplier = defaultWinMultiplier
              /\ added.riskPercentage =
                    IF s /= Undefined /\ Gt(s, Zero) /\ Lt(s, Whole(50))
                    THEN s ELSE defaultRiskPercentage
              /\ Inputs(result[n + 1]) = Inputs(added) ]_vars

\* C10 witness: a second trade was just added after a loss, with the
\* suggestion for the balance the loss left as its risk percentage.
C10_Witness ==
    /\ Len(trades) = 2
    /\ toast.text = "Trade added."
    /\ trades[1].outcome = "loss"
    /\ trades[2].outcome = "pending"
    /\ trades[2].winMultiplier = defaultWinMultiplier
    /\ trades[2].riskPercentage /= defaultRiskPercentage
    /\ trades[2].riskPercentage =
          ExpectedRisk(trades[1].accountBalance, profitTarget, defaultWinMultiplier)

\* C11: the suggested risk closes the distance exactly.  In a state with the
\* list recomputed, a winning trade that carries the default multiplier and the
\* risk suggested for the balance it opened with (a suggestion below 50) ends
\* at the target: its ending balance is the target, its distance to target is 0
\* and no next risk is suggested.
C11_SuggestedRiskClosesDistance ==
    Idle =>
        \A i \in 1..Len(trades) :
            \A s \in {calculateNextRiskDouble(trades[i].accountSize, profitTargetDouble,
                                              defaultWinMultiplierDouble)} :
                ( /\ trades[i].outcome = "win"
                  /\ s /= DoubleUndefined
                  /\ DoubleLt(s, DoubleOf(50))
                  /\ trades[i].riskPercentage = s
                  /\ trades[i].winMultiplier = defaultWinMultiplierDouble )
                => /\ trades[i].accountBalance = profitTargetDouble
                   /\ trades[i].distanceToTarget = DoubleZero
                   /\ trades[i].nextSuggestedRisk = DoubleUndefined

\* The same statement over the exact arithmetic of Spec, where it holds: the
\* rounding of the doubles is all that separates the code from it.
SuggestedRiskClosesDistanceInExactArithmetic ==
    Idle =>
        \A i \in 1..Len(trades) :
            \A s \in {calculateNextRisk(trades[i].accountSize, profitTarget,
                                        defaultWinMultiplier)} :
                ( /\ trades[i].outcome = "win"
                  /\ s /= Undefined
                  /\ Lt(s, Whole(50))
                  /\ trades[i].riskPercentage = s
                  /\ trades[i].winMultiplier = defaultWinMultiplier )
                => /\ trades[i].accountBalance = profitTarget
                   /\ trades[i].distanceToTarget = Zero
                   /\ trades[i].nextSuggestedRisk = Undefined

\* A winning trade opened with the suggested risk and the default multiplier.
SuggestedRiskTradeWon ==
    /\ Idle
    /\ \E i \in 1..Len(trades) :
          /\ trades[i].outcome = "win"
          /\ trades[i].riskPercentage /= defaultRiskPercentage
          /\ trades[i].riskPercentage =
                calculateNextRisk(trades[i].accountSize, profitTarget, defaultWinMultiplier)
          /\ trades[i].winMultiplier = defaultWinMultiplier

\* C12: the effective profit target is the user's value when that value
\* parses to a number greater than 0, and the initial balance times 1.08 when
\* the user's value is unset, does not parse, is zero or is negative (so it
\* follows the initial balance while the user's value is unset); the distance
\* to target of every trade of the recomputed list held in state is measured
\* from that target (where the target and the trade's balance are finite).
C12_EffectiveTarget ==
    \A userTarget \in {ParseFloat(profitTargetStr)} :
        \A fallback \in {Mul(initialBalance, Norm(108, 100))} :
            /\ Gt(userTarget, Zero) => profitTarget = userTarget
            /\ ( \/ profitTargetStr = <<>>
                 \/ IsNaN(userTarget)
                 \/ userTarget = Zero
                 \/ Lt(userTarget, Zero) ) => profitTarget = fallback
            /\ Idle =>
                  \A i \in 1..Len(trades) :
                      IsFinite(profitTarget) /\ IsFinite(trades[i].accountBalance) =>
                          trades[i].distanceToTarget =
                              Sub(IF Gt(userTarget, Zero) THEN userTarget ELSE fallback,
                                  trades[i].accountBalance)

\* The initial balance was changed to 2 with the target unset, and the list
\* has been recomputed against the target 2.16.
C12_Witness ==
    /\ Idle
    /\ profitTargetStr = <<>>
    /\ initialBalanceStr = <<"2">>
    /\ Len(trades) > 0
    /\ profitTarget = Norm(216, 100)
    /\ trades[1].distanceToTarget = Sub(Norm(216, 100), trades[1].accountBalance)

\* C13: the initial balance, the default risk percentage and the default win
\* multiplier the calculator uses are 0 for every stored string that does not
\* parse or parses to a negative number, and so are never below 0, whatever
\* the key-value store holds.
C13_StoredValuesNonNegative ==
    \A field \in {<<initialBalanceStr, initialBalance>>,
                  <<defaultRiskPercentageStr, defaultRiskPercentage>>,
                  <<defaultWinMultiplierStr, defaultWinMultiplier>>} :
        /\ (IsNaN(ParseFloat(field[1])) \/ Lt(ParseFloat(field[1]), Zero))
              => field[2] = Zero
        /\ Le(Zero, field[2])

\* C14: for every configuration and trade list the suggested-risk computation
\* divides only by a product endingBalance * multiplier that is greater than
\* 0, every derived amount of every recomputed trade is a finite number, and
\* the suggested next risk is undefined or a finite number greater than 0.
C14_ArithmeticMasked ==
    \A list \in {Recomputed} : \A i \in 1..Len(list) :
        /\ ~( \/ Le(Sub(profitTarget, list[i].accountBalance), Zero)
              \/ Le(list[i].accountBalance, Zero)
              \/ Le(defaultWinMultiplier, Zero) )
              => Gt(Mul(list[i].accountBalance, defaultWinMultiplier), Zero)
        /\ IsFinite(list[i].accountSize)
        /\ IsFinite(list[i].riskAmount)
        /\ IsFinite(list[i].floatingPL)
        /\ IsFinite(list[i].accountBalance)
        /\ IsFinite(list[i].distanceToTarget)
        /\ \/ list[i].nextSuggestedRisk = Undefined
           \/ /\ IsFinite(list[i].nextSuggestedRisk)
              /\ Gt(list[i].nextSuggestedRisk, Zero)

\* The list recalculated after the edit of one input of the trade with the
\* given id: the trades before it are as they were, the edited trade holds
\* the new input, and it and the trades after it are computed down the chain
\* from the inputs as edited.
EditFrame(id, field, new) ==
    LET k == CHOOSE i \in 1..Len(trades) : trades[i].id = id
        edited == [trades EXCEPT ![k][field] = new]
        result == recalculateTrades(trades')
    IN  /\ trades = recalculateTrades(trades)
        /\ Len(result) = Len(trades)
        /\ \A i \in 1..(k - 1) : result[i] = trades[i]
        /\ result[k][field] = new
        /\ \A i \in k..Len(result) :
              /\ Inputs(result[i]) = Inputs(edited[i])
              /\ result[i].tradeNumber = Whole(i)
              /\ result[i].accountSize =
                    IF i = 1 THEN initialBalance ELSE result[i - 1].accountBalance
              /\ result[i].riskAmount =
                    Mul(result[i].accountSize, Div(edited[i].riskPercentage, Whole(100)))
              /\ result[i].floatingPL =
                    ExpectedPL(edited[i].outcome, result[i].riskAmount,
                               edited[i].winMultiplier)
              /\ result[i].accountBalance =
                    Add(result[i].accountSize, result[i].floatingPL)
              /\ result[i].distanceToTarget =
                    Sub(profitTarget, result[i].accountBalance)

\* C15: setting the outcome of the trade at position k to any of the five
\* outcomes, or its risk percentage or win multiplier to an accepted value,
\* changes, after recalculation, only trade k and the trades after it: the
\* trades before k are identical in every field, and trade k and the trades
\* after it carry the values recomputed from the new input.
C15_EditFrame ==
    [][ \A id \in Ids :
          /\ \A newOutcome \in Outcomes :
                handleUpdateTradeOutcome(id, newOutcome)
                    => EditFrame(id, "outcome", newOutcome)
          /\ \A field \in TradeFields : \A value \in TradeInputs(field) :
                ( /\ handleUpdateTradeValue(id, field, value)
                  /\ ~IsNaN(ParseFloat(value))
                  /\ ~Lt(ParseFloat(value), Zero) )
                    => EditFrame(id, field, ParseFloat(value)) ]_vars

\* C15 witness: the first of two trades was set to a loss after the second
\* was added (the second still carries the risk suggested for the initial
\* balance), and the second now starts from the first trade's new balance.
C15_Witness ==
    /\ Idle
    /\ Len(trades) = 2
    /\ toast.kind = "info"
    /\ trades[1].outcome = "loss"
    /\ trades[2].riskPercentage =
          ExpectedRisk(initialBalance, profitTarget, defaultWinMultiplier)
    /\ Lt(trades[1].accountBalance, initialBalance)
    /\ trades[2].accountSize = trades[1].accountBalance

\* C16: whatever the configuration and the list, recalculateTrades returns a
\* list of the same length in the same order in which every trade keeps its
\* id, outcome, risk percentage and win multiplier; so every step of the
\* recalculation effect, also after a change of the configuration or the
\* deletion of another trade, leaves these four fields of every trade as
\* they were.
C16_OnlyDerivedFieldsChange ==
    /\ [](\A list \in {Recomputed} :
             /\ Len(list) = Len(trades)
             /\ \A i \in 1..Len(trades) : Inputs(list[i]) = Inputs(trades[i]))
    /\ [][ (hasMounted /\ effectPending) =>
             /\ Len(trades') = Len(trades)
             /\ \A i \in 1..Len(trades) : Inputs(trades'[i]) = Inputs(trades[i]) ]_vars

\* C16 witness: the initial balance was changed under a list of two trades,
\* and the pending recalculation changes derived fields of the list.
C16_Witness ==
    /\ hasMounted
    /\ effectPending
    /\ Len(trades) = 2
    /\ initialBalanceStr = <<"2">>
    /\ trades[1].accountSize /= initialBalance
    /\ Recomputed /= trades
    /\ Recomputed[1].accountSize = initialBalance

\* How far the recalculation effect is from having nothing to do: 0 with no
\* effect scheduled, 1 when the scheduled run will find the stored list equal
\* to its recomputation, 2 when it will store.
EffectRank ==
    IF ~(hasMounted /\ effectPending) THEN 0
    ELSE IF JsonStringify(Recomputed) = JsonStringify(trades) THEN 1 ELSE 2

\* C17: the recalculation effect converges.  A run of the effect that stores
\* a list stores one that the following run finds equal to its own
\* recomputation, so a list is stored at most once; a run that finds the
\* stored list equal stores nothing and schedules no further run; and with
\* no effect scheduled only a user event takes the system anywhere.
C17_EffectConverges ==
    /\ [][ (hasMounted /\ effectPending /\ trades' /= trades) =>
             /\ EffectRank = 2
             /\ effectPending'
             /\ JsonStringify(recalculateTrades(trades')) = JsonStringify(trades') ]_vars
    /\ [][ (hasMounted /\ effectPending /\ EffectRank = 1) =>
             /\ trades' = trades
             /\ ~effectPending' ]_vars
    /\ [][ Idle => events' = events + 1 ]_vars

\* C17 witness: a trade was added, the effect has stored the recomputed list
\* (the trade has its number), and its second run is scheduled and will
\* store nothing.
C17_Witness ==
    /\ toast.text = "Trade added."
    /\ Len(trades) = 1
    /\ trades[1].tradeNumber = Whole(1)
    /\ EffectRank = 1

====
